---- MODULE Spec2Model ----
(***************************************************************************)
(* State-machine model of LiveMusicHelper (src/unnamed/part_003): the      *)
(* playback state machine, the session connector with its fallback         *)
(* players, the stream scheduler and the throttled prompt delivery.        *)
(*                                                                         *)
(* One action is one macrotask of the single-threaded event loop: a host   *)
(* command, a backend callback, a timer, or the completion of an awaited   *)
(* external operation together with every continuation that resumes on it  *)
(* in the same turn.  Time is counted in whole seconds; the audio clock    *)
(* (audioContext.currentTime) and the timer clock are the same clock.      *)
(***************************************************************************)
EXTENDS Integers, Sequences, FiniteSets, TLC

\* ---------------------------------------------------------------- bounds
MaxPlays == 2
MaxChunks == 2
MaxTime == 4
MaxDur == 1

\* ------------------------------------------------------ program constants
bufferTime == 2
MaxWeight == 2

FALLBACK_AUDIO_MAP ==
  {"Bossa Nova", "Chillwave", "Drum and Bass", "Funk", "Ambient", "Lo-fi"}

\* Prompt texts the host offers: one that has a fallback asset, one that
\* has none (both are entries of DEFAULT_PROMPTS).
Texts == {"Funk", "Jazz"}

\* A prompt map as the host builds it: one prompt per text, in fixed
\* insertion order, each with a weight in 0..MaxWeight.
PromptMap(wFunk, wJazz) ==
  << [text |-> "Funk", weight |-> wFunk], [text |-> "Jazz", weight |-> wJazz] >>

HostPrompts == {PromptMap(a, b) : a \in 0..MaxWeight, b \in 0..1}

\* buildInitialPrompts(): some prompts start at weight 1, the others at 0.
InitialPrompts == PromptMap(1, 0)

\* The texts the backend rejects.
Rejected == {"Funk"}

PlaybackStates == {"stopped", "loading", "playing", "paused"}

Plays == 1..MaxPlays
Durations == 1..MaxDur

FallbackError == "Real-time connection failed. Activating offline fallback mode with local audio samples."
NoActivePromptError == "There needs to be one active prompt to play."
SendError == "setWeightedPrompts rejected"
FilteredEvent == "filtered-prompt"
RecordingOn == "recording-state-changed(true)"
RecordingOff == "recording-state-changed(false)"
FallbackRecordingError == "Recording is not available in fallback mode."
NotPlayingError == "Please start playback before recording."
NothingRecordedError == "Nothing was recorded."
ProcessingError == "Could not process recorded audio."

VARIABLES
  playbackState,    \* this.playbackState
  session,          \* this.session: 0 = null, else the connect attempt it came from
  sessionPromise,   \* this.sessionPromise: 0 = null, else the connect attempt
  isFallbackMode,   \* this.isFallbackMode
  fallbackPlayers,  \* this.fallbackPlayers: text -> [volume, paused]
  filteredPrompts,  \* this.filteredPrompts
  nextStartTime,    \* this.nextStartTime
  prompts,          \* this.prompts, in Map insertion order
  gain,             \* target of the last ramp on outputNode.gain
  connects,         \* per connect attempt: "none" | "pending" | "live" | "mock"
  backend,          \* per live session, the backend's view: idle/playing/paused/stopped/closed
  decoding,         \* chunks whose decode is awaited, in arrival order
  timers,           \* due times of the armed pre-roll timers
  scheduled,        \* buffers handed to source.start(), in scheduling order
  throttleBusy,     \* throttle: a delivery happened less than 200 ms ago
  throttlePending,  \* throttle: the argument waiting for the next window ({} = none)
  playPc,           \* per play() invocation: where it is suspended
  playAtt,          \* per play() invocation: the connect attempt it awaits
  now,              \* the clock, in seconds
  nchunks,          \* number of chunks the backend has delivered so far
  emitted,          \* events dispatched by the last handler
  op,               \* the handler that ran last
  prerollAt,        \* history: arrival time of the buffer that set nextStartTime (-1 = none)
  playEmpty,        \* history: play() was called with no active prompt
  sent,             \* requests the last handler sent to a backend session
  delivered,        \* prompt maps the last handler passed to the throttled function
  supplied,         \* history: the last argument supplied inside the open throttle
                    \* window and the number of such calls, counted up to 2
  isRecording,      \* this.isRecording
  recordedBuffers,  \* this.recordedBuffers
  downloaded,       \* files the last handler handed to downloadBlob()
  recLog,           \* history: ids of the buffers decoded while recording was on,
                    \* since the last startRecording()
  masterVolumeNode, \* target of masterVolumeNode.gain, in thousandths
  dryGain,          \* target of dryGain.gain
  distortionWetGain,\* target of distortionWetGain.gain
  delayFeedback,    \* target of delayFeedback.gain
  delayWetGain,     \* target of delayWetGain.gain
  reverbWetGain,    \* target of reverbWetGain.gain
  knobs,            \* per fx-knob: value, dragStartPos, dragStartValue and
                    \* whether its window pointer listeners are installed
  connections,      \* the connections between the audio nodes: << from, to >>
  isAudioGraphConnected, \* this.isAudioGraphConnected
  extraDestination, \* this.extraDestination is set (the analyser node)
  historyStack,     \* HistoryManager.historyStack, of snapshot ids
  currentIndex,     \* HistoryManager.currentIndex (0-based, -1 = empty)
  histReturned,     \* what the last undo() / redo() returned (0 = null)
  histAdds,         \* history: number of addState() calls = id of the last
                    \* snapshot
  presetStorage,    \* the localStorage item of the PresetManager
  presetResult,     \* the last PresetManager call: arguments and outcome
  presetSaved,      \* history: name -> prompt list of the presets saved and
                    \* not deleted
  dbTimers,         \* debounce: the timeouts set and neither run nor cleared
  timeoutId,        \* debounce: id of the last timeout set, 0 = undefined
  dbClock,          \* the time in ms of the debounced save
  dbCalls,          \* history: the time of each call of the debounced
                    \* function; call i carries prompt change i
  dbInvoked         \* history: the invocations of func, [args, at]

vars == << playbackState, session, sessionPromise, isFallbackMode,
           fallbackPlayers, filteredPrompts, nextStartTime, prompts, gain,
           connects, backend, decoding, timers, scheduled, throttleBusy,
           throttlePending, playPc, playAtt, now, nchunks, emitted, op,
           prerollAt, playEmpty, sent, delivered, supplied,
           isRecording, recordedBuffers, downloaded, recLog,
           masterVolumeNode, dryGain, distortionWetGain, delayFeedback,
           delayWetGain, reverbWetGain, knobs,
           connections, isAudioGraphConnected, extraDestination,
           historyStack, currentIndex, histReturned, histAdds,
           presetStorage, presetResult, presetSaved,
           dbTimers, timeoutId, dbClock, dbCalls, dbInvoked >>

\* The whole state as one record, so that a handler is a function from
\* state to state and handlers compose the way the calls in the code do.
St ==
  [ playbackState |-> playbackState, session |-> session,
    sessionPromise |-> sessionPromise, isFallbackMode |-> isFallbackMode,
    fallbackPlayers |-> fallbackPlayers, filteredPrompts |-> filteredPrompts,
    nextStartTime |-> nextStartTime, prompts |-> prompts, gain |-> gain,
    connects |-> connects, backend |-> backend, decoding |-> decoding,
    timers |-> timers, scheduled |-> scheduled, throttleBusy |-> throttleBusy,
    throttlePending |-> throttlePending, playPc |-> playPc,
    playAtt |-> playAtt, now |-> now, nchunks |-> nchunks,
    emitted |-> << >>, op |-> op, prerollAt |-> prerollAt,
    playEmpty |-> playEmpty, sent |-> << >>, delivered |-> << >>,
    supplied |-> supplied, isRecording |-> isRecording,
    recordedBuffers |-> recordedBuffers, downloaded |-> << >>,
    recLog |-> recLog, connections |-> connections,
    isAudioGraphConnected |-> isAudioGraphConnected,
    extraDestination |-> extraDestination ]

\* The effect chain and the knobs, as one record for their handlers.
Fx ==
  [ masterVolumeNode |-> masterVolumeNode, dryGain |-> dryGain,
    distortionWetGain |-> distortionWetGain, delayFeedback |-> delayFeedback,
    delayWetGain |-> delayWetGain, reverbWetGain |-> reverbWetGain,
    knobs |-> knobs ]

fxVars == << masterVolumeNode, dryGain, distortionWetGain, delayFeedback,
             delayWetGain, reverbWetGain, knobs >>

histVars == << historyStack, currentIndex, histReturned, histAdds >>

presetVars == << presetStorage, presetResult, presetSaved >>

debounceVars == << dbTimers, timeoutId, dbClock, dbCalls, dbInvoked >>

\* A handler's result becomes the next state.  The result is bound once,
\* as the element of a singleton, so that it is computed once per step.
Commit(s0, name) ==
  \E s \in {s0} :
    /\ playbackState' = s.playbackState
    /\ session' = s.session
    /\ sessionPromise' = s.sessionPromise
    /\ isFallbackMode' = s.isFallbackMode
    /\ fallbackPlayers' = s.fallbackPlayers
    /\ filteredPrompts' = s.filteredPrompts
    /\ nextStartTime' = s.nextStartTime
    /\ prompts' = s.prompts
    /\ gain' = s.gain
    /\ connects' = s.connects
    /\ backend' = s.backend
    /\ decoding' = s.decoding
    /\ timers' = s.timers
    /\ scheduled' = s.scheduled
    /\ throttleBusy' = s.throttleBusy
    /\ throttlePending' = s.throttlePending
    /\ playPc' = s.playPc
    /\ playAtt' = s.playAtt
    /\ now' = s.now
    /\ nchunks' = s.nchunks
    /\ emitted' = s.emitted
    /\ op' = name
    /\ prerollAt' = s.prerollAt
    /\ playEmpty' = s.playEmpty
    /\ sent' = s.sent
    /\ delivered' = s.delivered
    /\ supplied' = s.supplied
    /\ isRecording' = s.isRecording
    /\ recordedBuffers' = s.recordedBuffers
    /\ downloaded' = s.downloaded
    /\ recLog' = s.recLog
    /\ connections' = s.connections
    /\ isAudioGraphConnected' = s.isAudioGraphConnected
    /\ extraDestination' = s.extraDestination
    /\ UNCHANGED fxVars
    /\ UNCHANGED histVars
    /\ UNCHANGED presetVars
    /\ UNCHANGED debounceVars

\* A knob handler: the effect chain and the knobs change, the engine's
\* fields do not; `emitted` and the other per-handler records are emptied.
CommitFx(f0, name) ==
  \E f \in {f0} :
    /\ masterVolumeNode' = f.masterVolumeNode
    /\ dryGain' = f.dryGain
    /\ distortionWetGain' = f.distortionWetGain
    /\ delayFeedback' = f.delayFeedback
    /\ delayWetGain' = f.delayWetGain
    /\ reverbWetGain' = f.reverbWetGain
    /\ knobs' = f.knobs
    /\ op' = name
    /\ emitted' = << >>
    /\ sent' = << >>
    /\ delivered' = << >>
    /\ downloaded' = << >>
    /\ UNCHANGED << playbackState, session, sessionPromise, isFallbackMode,
                    fallbackPlayers, filteredPrompts, nextStartTime, prompts,
                    gain, connects, backend, decoding, timers, scheduled,
                    throttleBusy, throttlePending, playPc, playAtt, now,
                    nchunks, prerollAt, playEmpty, supplied, isRecording,
                    recordedBuffers, recLog, connections,
                    isAudioGraphConnected, extraDestination >>
    /\ UNCHANGED histVars
    /\ UNCHANGED presetVars
    /\ UNCHANGED debounceVars

\* A handler of the host that touches neither the engine nor the effects.
HostStep(name) ==
  /\ op' = name
  /\ emitted' = << >>
  /\ sent' = << >>
  /\ delivered' = << >>
  /\ downloaded' = << >>
  /\ UNCHANGED << playbackState, session, sessionPromise, isFallbackMode,
                  fallbackPlayers, filteredPrompts, nextStartTime, prompts,
                  gain, connects, backend, decoding, timers, scheduled,
                  throttleBusy, throttlePending, playPc, playAtt, now,
                  nchunks, prerollAt, playEmpty, supplied, isRecording,
                  recordedBuffers, recLog, connections,
                  isAudioGraphConnected, extraDestination >>
  /\ UNCHANGED fxVars

Min(a, b) == IF a < b THEN a ELSE b

\* ------------------------------------------------------------- helpers

Emit(s, e) == [s EXCEPT !.emitted = Append(@, e)]

setPlaybackState(s, state) == [s EXCEPT !.playbackState = state]

\* session.play() / pause() / stop() on the held handle: the mock session's
\* methods do nothing, a live session's reach the backend.
SessionCall(s, to) ==
  IF s.session # 0 /\ s.connects[s.session] = "live"
     /\ s.backend[s.session] # "closed"
  THEN [s EXCEPT !.backend[s.session] = to]
  ELSE s

activePromptsOf_IgnoresFilter(ps, filtered) ==
  SelectSeq(ps, LAMBDA p : p.weight # 0)

activePromptsOf(ps, filtered) ==
  SelectSeq(ps, LAMBDA p : p.text \notin filtered /\ p.weight # 0)

activePrompts(s) == activePromptsOf(s.prompts, s.filteredPrompts)

PlayersDo(s, isPaused) ==
  [s EXCEPT !.fallbackPlayers =
     [k \in DOMAIN s.fallbackPlayers |->
        [s.fallbackPlayers[k] EXCEPT !.paused = isPaused]]]

stop_KeepsFallback(s) ==
  LET s1 == IF s.isFallbackMode THEN PlayersDo(s, TRUE)
            ELSE SessionCall(s, "stopped")
      s2 == setPlaybackState(s1, "stopped")
  IN  [s2 EXCEPT !.gain = 0, !.nextStartTime = 0, !.prerollAt = -1,
                 !.session = 0, !.sessionPromise = 0,
                 !.decoding = [i \in DOMAIN s.decoding |->
                                 [s.decoding[i] EXCEPT !.stale = TRUE]]]

pause_KeepsSchedule(s) ==
  LET s1 == IF s.isFallbackMode THEN PlayersDo(s, TRUE)
            ELSE SessionCall(s, "paused")
      s2 == setPlaybackState(s1, "paused")
  IN  [s2 EXCEPT !.gain = 0]

pause(s) ==
  LET s1 == IF s.isFallbackMode THEN PlayersDo(s, TRUE)
            ELSE SessionCall(s, "paused")
      s2 == setPlaybackState(s1, "paused")
  IN  [s2 EXCEPT !.gain = 0, !.nextStartTime = 0, !.prerollAt = -1]

stop(s) ==
  LET s1 == IF s.isFallbackMode THEN PlayersDo(s, TRUE)
            ELSE SessionCall(s, "stopped")
      s2 == setPlaybackState(s1, "stopped")
  IN  [s2 EXCEPT !.gain = 0, !.nextStartTime = 0, !.prerollAt = -1,
                 !.session = 0, !.sessionPromise = 0,
                 !.isFallbackMode = FALSE,
                 !.decoding = [i \in DOMAIN s.decoding |->
                                 [s.decoding[i] EXCEPT !.stale = TRUE]]]

initializeFallbackPlayers_Audible(s) ==
  [s EXCEPT !.fallbackPlayers =
     [k \in (DOMAIN s.fallbackPlayers) \cup FALLBACK_AUDIO_MAP |->
        IF k \in FALLBACK_AUDIO_MAP THEN [volume |-> 1, paused |-> TRUE]
        ELSE s.fallbackPlayers[k]]]

initializeFallbackPlayers(s) ==
  [s EXCEPT !.fallbackPlayers =
     [k \in (DOMAIN s.fallbackPlayers) \cup FALLBACK_AUDIO_MAP |->
        IF k \in FALLBACK_AUDIO_MAP THEN [volume |-> 0, paused |-> TRUE]
        ELSE s.fallbackPlayers[k]]]

FallbackVolume_Unclamped(s, text) ==
  LET act == activePrompts(s)
      hits == {i \in DOMAIN act : act[i].text = text}
  IN  IF hits = {} THEN 0
      ELSE LET first == CHOOSE i \in hits : \A j \in hits : i <= j
           IN  act[first].weight

\* The volume the fallback mixer gives the player keyed by text.
FallbackVolume(s, text) ==
  LET act == activePrompts(s)
      hits == {i \in DOMAIN act : act[i].text = text}
  IN  IF hits = {} THEN 0
      ELSE LET first == CHOOSE i \in hits : \A j \in hits : i <= j
           IN  Min(act[first].weight, 1)

sendPrompts_Silent(s, sendOk) ==
  IF s.session = 0
  THEN s
  ELSE IF s.connects[s.session] = "live"
  THEN [s EXCEPT !.sent = Append(@, [weightedPrompts |-> activePrompts(s),
                                      ok |-> sendOk])]
  ELSE s

\* The tail of the throttled function: the request to the session.  The
\* mock session's setWeightedPrompts does nothing; sendOk is the backend's
\* answer to a live session's.
sendPrompts(s, sendOk) ==
  IF s.session = 0
  THEN s
  ELSE IF s.connects[s.session] = "live"
  THEN LET s1 == [s EXCEPT !.sent = Append(@, [weightedPrompts |-> activePrompts(s),
                                                ok |-> sendOk])]
       IN  IF sendOk THEN s1 ELSE pause(Emit(s1, SendError))
  ELSE s

deliverPrompts_SendsEmpty(s, ps, sendOk) ==
  LET s1 == [s EXCEPT !.prompts = ps, !.delivered = Append(@, ps)]
  IN  IF s1.isFallbackMode
      THEN [s1 EXCEPT !.fallbackPlayers =
              [k \in DOMAIN s1.fallbackPlayers |->
                 [s1.fallbackPlayers[k] EXCEPT !.volume = FallbackVolume(s1, k)]]]
      ELSE sendPrompts(s1, sendOk)

\* The function wrapped by throttle(): one delivery of a prompt map.
deliverPrompts(s, ps, sendOk) ==
  LET s1 == [s EXCEPT !.prompts = ps, !.delivered = Append(@, ps)]
  IN  IF s1.isFallbackMode
      THEN [s1 EXCEPT !.fallbackPlayers =
              [k \in DOMAIN s1.fallbackPlayers |->
                 [s1.fallbackPlayers[k] EXCEPT !.volume = FallbackVolume(s1, k)]]]
      ELSE IF Len(activePrompts(s1)) = 0
      THEN pause(Emit(s1, NoActivePromptError))
      ELSE sendPrompts(s1, sendOk)


\* ------------------------------------------------------- the effects graph

\* AudioNode.connect(destination): a connection that exists already is left
\* as it is (the Web Audio graph holds at most one connection between two
\* nodes).
connect(g, from, to) == g \cup {<< from, to >>}

\* AudioNode.disconnect(): every outgoing connection of the node.
disconnect(g, from) == {e \in g : e[1] # from}

\* AudioNode.disconnect(destination).
disconnectFrom(g, from, to) == g \ {<< from, to >>}

\* connectAudioGraph(), the teardown in the branch isAudioGraphConnected.
disconnectAll(g) ==
  LET g1  == disconnect(g, "outputNode")
      g2  == disconnect(g1, "dryGain")
      g3  == disconnect(g2, "distortionNode")
      g4  == disconnect(g3, "distortionWetGain")
      g5  == disconnect(g4, "delayWetGain")
      g6  == disconnectFrom(g5, "delayNode", "finalOutput")
      g7  == disconnectFrom(g6, "delayNode", "delayFeedback")
      g8  == disconnect(g7, "delayFeedback")
      g9  == disconnect(g8, "reverbNode")
      g10 == disconnect(g9, "reverbWetGain")
      g11 == disconnectFrom(g10, "finalOutput", "masterVolumeNode")
  IN  disconnect(g11, "masterVolumeNode")

connectAudioGraph_NoTap(s) ==
  LET g0  == IF s.isAudioGraphConnected THEN disconnectAll(s.connections)
             ELSE s.connections
      g1  == connect(g0, "outputNode", "dryGain")
      g2  == connect(g1, "dryGain", "finalOutput")
      g3  == connect(g2, "outputNode", "distortionNode")
      g4  == connect(g3, "distortionNode", "distortionWetGain")
      g5  == connect(g4, "distortionWetGain", "finalOutput")
      g6  == connect(g5, "outputNode", "delayWetGain")
      g7  == connect(g6, "delayWetGain", "delayNode")
      g8  == connect(g7, "delayNode", "finalOutput")
      g9  == connect(g8, "delayNode", "delayFeedback")
      g10 == connect(g9, "delayFeedback", "delayNode")
      g11 == connect(g10, "outputNode", "reverbNode")
      g12 == connect(g11, "reverbNode", "reverbWetGain")
      g13 == connect(g12, "reverbWetGain", "finalOutput")
      g14 == connect(g13, "finalOutput", "masterVolumeNode")
      g15 == connect(g14, "masterVolumeNode", "destination")
  IN  [s EXCEPT !.connections = g15, !.isAudioGraphConnected = TRUE]

connectAudioGraph(s) ==
  LET g0  == IF s.isAudioGraphConnected THEN disconnectAll(s.connections)
             ELSE s.connections
      g1  == connect(g0, "outputNode", "dryGain")
      g2  == connect(g1, "dryGain", "finalOutput")
      g3  == connect(g2, "outputNode", "distortionNode")
      g4  == connect(g3, "distortionNode", "distortionWetGain")
      g5  == connect(g4, "distortionWetGain", "finalOutput")
      g6  == connect(g5, "outputNode", "delayWetGain")
      g7  == connect(g6, "delayWetGain", "delayNode")
      g8  == connect(g7, "delayNode", "finalOutput")
      g9  == connect(g8, "delayNode", "delayFeedback")
      g10 == connect(g9, "delayFeedback", "delayNode")
      g11 == connect(g10, "outputNode", "reverbNode")
      g12 == connect(g11, "reverbNode", "reverbWetGain")
      g13 == connect(g12, "reverbWetGain", "finalOutput")
      g14 == connect(g13, "finalOutput", "masterVolumeNode")
      g15 == connect(g14, "masterVolumeNode", "destination")
      g16 == IF s.extraDestination
             THEN connect(g15, "masterVolumeNode", "extraDestination")
             ELSE g15
  IN  [s EXCEPT !.connections = g16, !.isAudioGraphConnected = TRUE]

\* ------------------------------------------------------- play() and connect

playFinish_FallbackWaits(s, p, branch) ==
  IF branch = "fallback"
  THEN [s EXCEPT !.playPc[p] = "done"]
  ELSE IF s.session = 0
  THEN [s EXCEPT !.playPc[p] = "failed"]
  ELSE [SessionCall(s, "playing") EXCEPT !.gain = 1, !.playPc[p] = "done"]

\* play(), from the end of `await this.setWeightedPrompts(this.prompts)`.
playFinish(s, p, branch) ==
  IF branch = "fallback"
  THEN [setPlaybackState(s, "playing") EXCEPT !.playPc[p] = "done"]
  ELSE IF s.session = 0
  THEN [s EXCEPT !.playPc[p] = "failed"]  \* this.session.play() on null throws
  ELSE [SessionCall(s, "playing") EXCEPT !.gain = 1, !.playPc[p] = "done"]

\* throttle(): a call outside the window runs the function at once and
\* opens the window; a call inside it replaces the pending argument and
\* is delivered when the window ends.
throttleCall(s, ps, sendOk) ==
  IF s.throttleBusy
  THEN [s EXCEPT !.throttlePending = {ps}]
  ELSE deliverPrompts([s EXCEPT !.throttleBusy = TRUE], ps, sendOk)

\* A call of setWeightedPrompts(ps) while the throttle window is open.
Supply(s, ps) ==
  IF s.supplied = {} THEN {[arg |-> ps, calls |-> 1]}
  ELSE {[arg |-> ps, calls |-> 2]}

\* play(): `await this.setWeightedPrompts(this.prompts)` in either branch.
playCallPrompts(s, p, branch, sendOk) ==
  IF s.throttleBusy
  THEN [throttleCall(s, s.prompts, sendOk) EXCEPT
          !.supplied = Supply(s, s.prompts),
          !.playPc[p] = IF branch = "fallback" THEN "throttleF" ELSE "throttleL"]
  ELSE playFinish(throttleCall(s, s.prompts, sendOk), p, branch)

\* play(), from the end of `await this.getSession()`.
playResume(s, p, sendOk) ==
  LET s1 == [s EXCEPT !.session = s.playAtt[p]]
  IN  IF s1.isFallbackMode
      THEN [PlayersDo(s1, FALSE) EXCEPT !.playPc[p] = "players"]
      ELSE playCallPrompts(s1, p, "live", sendOk)

getSession(s, p) ==
  IF s.sessionPromise = 0
  THEN [s EXCEPT !.sessionPromise = p, !.connects[p] = "pending"]
  ELSE s

play_NoLoading(s, p, sendOk) ==
  LET s1 == getSession(connectAudioGraph(s), p)
      s2 == [s1 EXCEPT !.playAtt[p] = s1.sessionPromise,
                       !.playEmpty[p] = (activePrompts(s) = << >>)]
  IN  IF s2.connects[s2.playAtt[p]] = "pending"
      THEN [s2 EXCEPT !.playPc[p] = "connect"]
      ELSE playResume(s2, p, sendOk)

\* play(), up to its first suspension.  An already settled session promise
\* resumes the caller in the same turn.
play(s, p, sendOk) ==
  LET s1 == getSession(connectAudioGraph(setPlaybackState(s, "loading")), p)
      s2 == [s1 EXCEPT !.playAtt[p] = s1.sessionPromise,
                       !.playEmpty[p] = (activePrompts(s) = << >>)]
  IN  IF s2.connects[s2.playAtt[p]] = "pending"
      THEN [s2 EXCEPT !.playPc[p] = "connect"]
      ELSE playResume(s2, p, sendOk)

\* connect(), from the settling of ai.live.music.connect().
connectSettled(s, a, ok) ==
  IF ok
  THEN [s EXCEPT !.isFallbackMode = FALSE, !.connects[a] = "live"]
  ELSE initializeFallbackPlayers(
         Emit([s EXCEPT !.isFallbackMode = TRUE, !.connects[a] = "mock"],
              FallbackError))

RECURSIVE resumeAll(_, _, _)
resumeAll(s, ps, sendOk) ==
  IF ps = {} THEN s
  ELSE LET p == CHOOSE x \in ps : \A y \in ps : x <= y
       IN  resumeAll(playResume(s, p, sendOk), ps \ {p}, sendOk)

RECURSIVE finishAll(_, _)
finishAll(s, ps) ==
  IF ps = {} THEN s
  ELSE LET p == CHOOSE x \in ps : \A y \in ps : x <= y
       IN  finishAll(playFinish(s, p, IF s.playPc[p] = "throttleF"
                                      THEN "fallback" ELSE "live"),
                     ps \ {p})

\* ------------------------------------------------------------ scheduler

\* decodeAudioData(decode(data), audioContext, 48000, 2): the decoded
\* buffer of a chunk; its samples are not tracked.
DecodedBuffer(c) ==
  [id |-> c.id, numberOfChannels |-> 2, sampleRate |-> 48000,
   length |-> c.dur * 48000]

recordTap_SkipsLate(s, c) ==
  IF s.isRecording /\ ~(s.nextStartTime # 0 /\ s.nextStartTime < s.now)
  THEN [s EXCEPT !.recordedBuffers = Append(@, DecodedBuffer(c))]
  ELSE s

\* processAudioChunks(): the recorder's tap on the decoded buffer.
recordTap(s, c) ==
  IF s.isRecording
  THEN [s EXCEPT !.recordedBuffers = Append(@, DecodedBuffer(c))]
  ELSE s

processDecoded_NoDrop(s0, c) ==
  LET s  == recordTap(s0, c)
      s1 == IF s.nextStartTime = 0
            THEN [s EXCEPT !.nextStartTime = s.now + bufferTime,
                           !.timers = Append(@, s.now + bufferTime),
                           !.prerollAt = s.now]
            ELSE s
      s2 == IF s1.nextStartTime < s1.now
            THEN [setPlaybackState(s1, "loading") EXCEPT
                    !.nextStartTime = s1.now, !.prerollAt = s1.now]
            ELSE s1
  IN  [s2 EXCEPT
         !.scheduled = Append(@, [start |-> s2.nextStartTime, dur |-> c.dur]),
         !.nextStartTime = @ + c.dur]

processDecoded_AlwaysPreroll(s0, c) ==
  LET s  == recordTap(s0, c)
      s1 == [s EXCEPT !.nextStartTime = s.now + bufferTime,
                      !.timers = IF s.nextStartTime = 0
                                 THEN Append(@, s.now + bufferTime) ELSE @,
                      !.prerollAt = IF s.nextStartTime = 0 THEN s.now ELSE @]
  IN  [s1 EXCEPT
         !.scheduled = Append(@, [start |-> s1.nextStartTime, dur |-> c.dur]),
         !.nextStartTime = @ + c.dur]

\* processAudioChunks(), from the end of `await decodeAudioData(...)`.
processDecoded(s0, c) ==
  LET s  == recordTap(s0, c)
      s1 == IF s.nextStartTime = 0
            THEN [s EXCEPT !.nextStartTime = s.now + bufferTime,
                           !.timers = Append(@, s.now + bufferTime),
                           !.prerollAt = s.now]
            ELSE s
  IN  IF s1.nextStartTime < s1.now
      THEN [setPlaybackState(s1, "loading") EXCEPT
              !.nextStartTime = 0, !.prerollAt = -1]
      ELSE [s1 EXCEPT
              !.scheduled = Append(@, [start |-> s1.nextStartTime,
                                       dur |-> c.dur]),
              !.nextStartTime = @ + c.dur]

\* ------------------------------------------------------------- recorder

\* Samples are the rationals k / SampleDen; a buffer whose samples are
\* tracked carries them per channel in the field data.
SampleDen == 4

Tracked(b) == "data" \in DOMAIN b

RECURSIVE TotalLength(_)
TotalLength(buffers) ==
  IF buffers = << >> THEN 0
  ELSE Head(buffers).length + TotalLength(Tail(buffers))

RECURSIVE ChannelData(_, _)
ChannelData(buffers, ch) ==
  IF buffers = << >> THEN << >>
  ELSE Head(buffers).data[ch] \o ChannelData(Tail(buffers), ch)

\* concatenateAudioBuffers(): the result takes its channel count and its
\* sample rate from the first buffer; getChannelData(channel) throws for a
\* buffer that has fewer channels than the first.
concatenateAudioBuffers(buffers) ==
  LET C == buffers[1].numberOfChannels
      shape == [numberOfChannels |-> C,
                sampleRate |-> buffers[1].sampleRate,
                length |-> TotalLength(buffers)]
  IN  IF \E i \in DOMAIN buffers : buffers[i].numberOfChannels < C
      THEN [ok |-> FALSE]
      ELSE IF \A i \in DOMAIN buffers : Tracked(buffers[i])
      THEN [ok |-> TRUE,
            buffer |-> [numberOfChannels |-> shape.numberOfChannels,
                        sampleRate |-> shape.sampleRate,
                        length |-> shape.length,
                        data |-> [ch \in 1..C |-> ChannelData(buffers, ch)]]]
      ELSE [ok |-> TRUE, buffer |-> shape]

\* (x | 0) for the quotient n / d with d > 0: truncation towards zero.
TruncDiv(n, d) == IF n >= 0 THEN n \div d ELSE -((-n) \div d)

EncodeSample_Unclamped(k) ==
  IF SampleDen + 2 * k < 0
  THEN TruncDiv(k * 32768, SampleDen)
  ELSE TruncDiv(k * 32767, SampleDen)

\* audioBufferToWav(), lines 529-530, on the sample k / SampleDen.
EncodeSample(k) ==
  LET c == IF k < -SampleDen THEN -SampleDen
           ELSE IF k > SampleDen THEN SampleDen ELSE k
  IN  IF SampleDen + 2 * c < 0
      THEN TruncDiv(c * 32768, SampleDen)
      ELSE TruncDiv(c * 32767, SampleDen)

\* audioBufferToWav(), the data loop: frame by frame, channel by channel.
wavSamples(buffer) ==
  LET C == buffer.numberOfChannels
  IN  [j \in 1..(buffer.length * C) |->
         EncodeSample(buffer.data[((j - 1) % C) + 1][((j - 1) \div C) + 1])]

audioBufferToWav_RiffSizeOff(buffer) ==
  LET numOfChan == buffer.numberOfChannels
      length == buffer.length * numOfChan * 2 + 44
  IN  [byteLength |-> length,
       riff |-> "RIFF",
       riffSize |-> length,
       wave |-> "WAVE",
       fmt |-> "fmt ",
       fmtSize |-> 16,
       format |-> 1,
       numChannels |-> numOfChan % 65536,
       sampleRate |-> buffer.sampleRate,
       byteRate |-> (buffer.sampleRate * 2 * numOfChan),
       blockAlign |-> (numOfChan * 2) % 65536,
       bitsPerSample |-> 16,
       data |-> "data",
       dataSize |-> (length - 44),
       samples |-> IF Tracked(buffer) THEN wavSamples(buffer) ELSE << >>]

\* audioBufferToWav(): the header fields in file order, the byte length of
\* the file and the data chunk (empty when the samples are not tracked).
\* The 16-bit fields wrap; the 32-bit fields stay far below 2^32 for every
\* buffer of the model.
audioBufferToWav(buffer) ==
  LET numOfChan == buffer.numberOfChannels
      length == buffer.length * numOfChan * 2 + 44
  IN  [byteLength |-> length,
       riff |-> "RIFF",
       riffSize |-> (length - 8),
       wave |-> "WAVE",
       fmt |-> "fmt ",
       fmtSize |-> 16,
       format |-> 1,
       numChannels |-> numOfChan % 65536,
       sampleRate |-> buffer.sampleRate,
       byteRate |-> (buffer.sampleRate * 2 * numOfChan),
       blockAlign |-> (numOfChan * 2) % 65536,
       bitsPerSample |-> 16,
       data |-> "data",
       dataSize |-> (length - 44),
       samples |-> IF Tracked(buffer) THEN wavSamples(buffer) ELSE << >>]

startRecording_IgnoresFallback(s) ==
  IF s.playbackState \notin {"playing", "loading"}
  THEN Emit(s, NotPlayingError)
  ELSE Emit([s EXCEPT !.recordedBuffers = << >>, !.isRecording = TRUE],
            RecordingOn)

startRecording(s) ==
  IF s.isFallbackMode
  THEN Emit(s, FallbackRecordingError)
  ELSE IF s.playbackState \notin {"playing", "loading"}
  THEN Emit(s, NotPlayingError)
  ELSE Emit([s EXCEPT !.recordedBuffers = << >>, !.isRecording = TRUE],
            RecordingOn)

stopRecordingAndDownload_KeepsOnError(s) ==
  IF ~s.isRecording
  THEN s
  ELSE LET s1 == Emit([s EXCEPT !.isRecording = FALSE], RecordingOff)
       IN  IF Len(s1.recordedBuffers) = 0
           THEN Emit(s1, NothingRecordedError)
           ELSE LET full == concatenateAudioBuffers(s1.recordedBuffers)
                IN  IF full.ok
                    THEN [s1 EXCEPT !.downloaded =
                                      Append(@, audioBufferToWav(full.buffer)),
                                    !.recordedBuffers = << >>]
                    ELSE Emit(s1, ProcessingError)

stopRecordingAndDownload(s) ==
  IF ~s.isRecording
  THEN s
  ELSE LET s1 == Emit([s EXCEPT !.isRecording = FALSE], RecordingOff)
       IN  IF Len(s1.recordedBuffers) = 0
           THEN Emit(s1, NothingRecordedError)
           ELSE LET full == concatenateAudioBuffers(s1.recordedBuffers)
                    s2 == IF full.ok
                          THEN [s1 EXCEPT !.downloaded =
                                  Append(@, audioBufferToWav(full.buffer))]
                          ELSE Emit(s1, ProcessingError)
                IN  [s2 EXCEPT !.recordedBuffers = << >>]

\* -------------------------------------------------------------- effects

\* Gains and knob values are counted in thousandths: One stands for 1.
One == 1000

\* The four fx-knob elements of the effects panel.
Knobs == {"distortion", "delay", "reverb", "volume"}

\* Math.max(0, Math.min(1, value))
Clamp01(v) == IF v > One THEN One ELSE IF v < 0 THEN 0 ELSE v

handleWheel_Unclamped(value, deltaY) == value - deltaY

\* FxKnob.handleWheel(): value + deltaY * -0.001, clamped.
handleWheel(value, deltaY) == Clamp01(value - deltaY)

\* FxKnob.handlePointerMove(): dragStartValue + delta * 0.005, clamped.
handlePointerMove(dragStartPos, dragStartValue, clientY) ==
  Clamp01(dragStartValue + (dragStartPos - clientY) * 5)

setDistortion(s, amount) == [s EXCEPT !.distortionWetGain = amount]

setDelay(s, amount) ==
  [s EXCEPT !.delayWetGain = amount, !.delayFeedback = (amount * 7) \div 10]

setReverb(s, amount) == [s EXCEPT !.reverbWetGain = amount]

setMasterVolume(s, amount) == [s EXCEPT !.masterVolumeNode = amount]

\* The knob's 'input' event: handleFxChange / handleMasterVolumeChange
\* re-dispatch the knob's value and the host's listener calls the setter.
knobInput(s, k) ==
  LET amount == s.knobs[k].value
  IN  IF k = "distortion" THEN setDistortion(s, amount)
      ELSE IF k = "delay" THEN setDelay(s, amount)
      ELSE IF k = "reverb" THEN setReverb(s, amount)
      ELSE setMasterVolume(s, amount)

\* -------------------------------------------------------------- history

\* HistoryManager.maxSize
maxSize == 100

canUndo(h) == h.currentIndex > 0

canRedo(h) == h.currentIndex < Len(h.historyStack) - 1

addState_NoLimit(h, state) ==
  LET cut == IF h.currentIndex < Len(h.historyStack) - 1
             THEN SubSeq(h.historyStack, 1, h.currentIndex + 1)
             ELSE h.historyStack
      pushed == Append(cut, state)
  IN  [historyStack |-> pushed, currentIndex |-> Len(pushed) - 1]

addState_KeepsFuture(h, state) ==
  LET pushed == Append(h.historyStack, state)
      kept == IF Len(pushed) > maxSize THEN Tail(pushed) ELSE pushed
  IN  [historyStack |-> kept, currentIndex |-> Len(kept) - 1]

redo_NoMove(h) ==
  IF canRedo(h)
  THEN [h |-> h, ret |-> h.historyStack[h.currentIndex + 2]]
  ELSE [h |-> h, ret |-> 0]

\* addState(): slice(0, currentIndex + 1) when the cursor is not at the
\* end, push, shift when the stack is longer than maxSize.
addState(h, state) ==
  LET cut == IF h.currentIndex < Len(h.historyStack) - 1
             THEN SubSeq(h.historyStack, 1, h.currentIndex + 1)
             ELSE h.historyStack
      pushed == Append(cut, state)
      kept == IF Len(pushed) > maxSize THEN Tail(pushed) ELSE pushed
  IN  [historyStack |-> kept, currentIndex |-> Len(kept) - 1]

\* undo() and redo(): the manager afterwards and the value returned.
undo(h) ==
  IF canUndo(h)
  THEN [h |-> [h EXCEPT !.currentIndex = @ - 1],
        ret |-> h.historyStack[h.currentIndex]]
  ELSE [h |-> h, ret |-> 0]

redo(h) ==
  IF canRedo(h)
  THEN [h |-> [h EXCEPT !.currentIndex = @ + 1],
        ret |-> h.historyStack[h.currentIndex + 2]]
  ELSE [h |-> h, ret |-> 0]

\* -------------------------------------------------------------- presets

\* The preset names of the model, in the order of Array.prototype.sort()
\* (by UTF-16 code units).
NameOrder == << "Ambient", "Bass", "Chill" >>

Rank(name) == CHOOSE i \in DOMAIN NameOrder : NameOrder[i] = name

\* A Map is the sequence of its entries << key, value >>, in insertion
\* order, with no key twice.
MapHas(m, k) == \E i \in DOMAIN m : m[i][1] = k

MapGet(m, k) == m[CHOOSE i \in DOMAIN m : m[i][1] = k][2]

\* Map.set(): a known key keeps its place and gets the new value.
MapSet(m, k, v) ==
  IF MapHas(m, k)
  THEN [i \in DOMAIN m |-> IF m[i][1] = k THEN << k, v >> ELSE m[i]]
  ELSE Append(m, << k, v >>)

MapDelete(m, k) == SelectSeq(m, LAMBDA e : e[1] # k)

MapKeys(m) == [i \in DOMAIN m |-> m[i][1]]

\* new Map(entries): the entries are set one after the other.
RECURSIVE MapOf(_, _)
MapOf(m, entries) ==
  IF entries = << >> THEN m
  ELSE MapOf(MapSet(m, entries[1][1], entries[1][2]), Tail(entries))

\* getPresets(): no item (or an unreadable one) is the empty Map; the item
\* is the JSON text of the array of entries.
getPresets(st) == IF st.present THEN MapOf(<< >>, st.entries) ELSE << >>

\* setPresets(): localStorage.setItem() of Array.from(presets.entries());
\* it throws when the storage refuses the item.
setPresets(st, presets, quotaOk) ==
  IF quotaOk
  THEN [threw |-> FALSE, storage |-> [present |-> TRUE, entries |-> presets]]
  ELSE [threw |-> TRUE, storage |-> st]

RECURSIVE InsertSorted(_, _)
InsertSorted(names, n) ==
  IF names = << >> THEN << n >>
  ELSE IF Rank(n) < Rank(names[1]) THEN << n >> \o names
  ELSE << names[1] >> \o InsertSorted(Tail(names), n)

\* Array.prototype.sort() on names.
RECURSIVE Sort(_)
Sort(names) ==
  IF names = << >> THEN << >>
  ELSE InsertSorted(Sort(Tail(names)), names[1])

listPresets_Unsorted(st) == MapKeys(getPresets(st))

listPresets(st) == Sort(MapKeys(getPresets(st)))

savePreset(st, name, ps, quotaOk) ==
  IF name = ""
  THEN [threw |-> TRUE, storage |-> st]
  ELSE setPresets(st, MapSet(getPresets(st), name, ps), quotaOk)

\* loadPreset(): presets.get(name) || null; an array is never falsy.
loadPreset(st, name) ==
  LET presets == getPresets(st)
  IN  IF MapHas(presets, name)
      THEN [found |-> TRUE, value |-> MapGet(presets, name)]
      ELSE [found |-> FALSE]

deletePreset(st, name, quotaOk) ==
  LET presets == getPresets(st)
  IN  IF MapHas(presets, name)
      THEN setPresets(st, MapDelete(presets, name), quotaOk)
      ELSE [threw |-> TRUE, storage |-> st]

\* ------------------------------------------------------------- debounce

\* saveStateToHistory = debounce(..., 500)
delay == 500

\* clearTimeout(id): the timeout, if still set, will not run.
clearTimeout(ts, id) == {x \in ts : x.id # id}

\* window.setTimeout(callback, ms) at time t: a new timeout that runs no
\* earlier than t + ms.
setTimeout(ts, id, t, ms, args) ==
  ts \cup {[id |-> id, due |-> t + ms, args |-> args]}

debounce_NoClear(d, t, args) ==
  [timers    |-> setTimeout(d.timers, d.timeoutId + 1, t, delay, args),
   timeoutId |-> d.timeoutId + 1]

\* One call of the function debounce() returns: the pending timeout is
\* cleared and a new one is set for this call's arguments.
debounce(d, t, args) ==
  [timers    |-> setTimeout(clearTimeout(d.timers, d.timeoutId),
                            d.timeoutId + 1, t, delay, args),
   timeoutId |-> d.timeoutId + 1]

\* --------------------------------------------------------------- actions

InitEngine ==
  /\ playbackState = "stopped"
  /\ session = 0
  /\ sessionPromise = 0
  /\ isFallbackMode = FALSE
  /\ fallbackPlayers = [k \in {} |-> [volume |-> 0, paused |-> TRUE]]
  /\ filteredPrompts = {}
  /\ nextStartTime = 0
  /\ prompts = InitialPrompts
  /\ gain = 1
  /\ connects = [a \in Plays |-> "none"]
  /\ backend = [a \in Plays |-> "idle"]
  /\ decoding = << >>
  /\ timers = << >>
  /\ scheduled = << >>
  /\ throttleBusy = FALSE
  /\ throttlePending = {}
  /\ playPc = [p \in Plays |-> "idle"]
  /\ playAtt = [p \in Plays |-> 0]
  /\ now = 0
  /\ nchunks = 0
  /\ emitted = << >>
  /\ op = "init"
  /\ prerollAt = -1
  /\ playEmpty = [p \in Plays |-> FALSE]
  /\ sent = << >>
  /\ delivered = << >>
  /\ supplied = {}
  /\ downloaded = << >>
  /\ recLog = << >>
  /\ masterVolumeNode = One
  /\ dryGain = One
  /\ distortionWetGain = 0
  /\ delayFeedback = One \div 2
  /\ delayWetGain = 0
  /\ reverbWetGain = 0
  /\ knobs = [k \in Knobs |->
                [value |-> IF k = "volume" THEN One ELSE 0,
                 dragStartPos |-> 0, dragStartValue |-> 0,
                 listening |-> FALSE]]
  /\ connections = {}
  /\ isAudioGraphConnected = FALSE
  /\ historyStack = << >>
  /\ currentIndex = -1
  /\ histReturned = 0
  /\ histAdds = 0
  /\ presetStorage = [present |-> FALSE, entries |-> << >>]
  /\ presetResult = [call |-> "none"]
  /\ presetSaved = << >>
  /\ dbTimers = {}
  /\ timeoutId = 0
  /\ dbClock = 0
  /\ dbCalls = << >>
  /\ dbInvoked = << >>

\* The host hands the analyser node to the engine right after constructing
\* it, before any event is handled.
Init ==
  /\ InitEngine
  /\ isRecording = FALSE
  /\ recordedBuffers = << >>
  /\ extraDestination = TRUE

\* Whether the backend rejects a session.setWeightedPrompts request: it can
\* only when there is a live session to send the request to.
SendRejects(a) == IF a # 0 /\ connects[a] = "live" THEN BOOLEAN ELSE {FALSE}

NextPlay(p) == playPc[p] = "idle" /\ \A q \in Plays : q < p => playPc[q] # "idle"

PlayPause_LoadingPauses ==
  \E p \in Plays, rejected \in SendRejects(sessionPromise) :
    \/ /\ playbackState \in {"playing", "loading"}
       /\ ~throttleBusy
       /\ Commit(pause(St), "pause")
    \/ /\ playbackState \in {"paused", "stopped"}
       /\ ~throttleBusy
       /\ NextPlay(p)
       /\ Commit(play(St, p, ~rejected), "play")

PlayPause ==
  \E p \in Plays, rejected \in SendRejects(sessionPromise) :
    \/ /\ playbackState = "playing"
       /\ ~throttleBusy
       /\ Commit(pause(St), "pause")
    \/ /\ playbackState \in {"paused", "stopped"}
       /\ ~throttleBusy
       /\ NextPlay(p)
       /\ Commit(play(St, p, ~rejected), "play")
    \/ /\ playbackState = "loading"
       /\ ~throttleBusy
       /\ Commit(stop(St), "stop")

\* The host's prompts-changed listener, with the throttle wrapper left out.
SetWeightedPrompts_Unthrottled ==
  \E ps \in HostPrompts, rejected \in SendRejects(session) :
    Commit([deliverPrompts(St, ps, ~rejected) EXCEPT
              !.supplied = IF throttleBusy THEN Supply(St, ps) ELSE @],
           "setWeightedPrompts")

SetWeightedPrompts ==
  \E ps \in HostPrompts, rejected \in SendRejects(session) :
    Commit([throttleCall(St, ps, ~rejected) EXCEPT
              !.supplied = IF throttleBusy THEN Supply(St, ps) ELSE @],
           "setWeightedPrompts")

ThrottleExpire ==
  \E rejected \in SendRejects(session) :
    /\ throttleBusy
    /\ IF throttlePending = {}
       THEN Commit([St EXCEPT !.throttleBusy = FALSE, !.supplied = {}],
                   "throttleExpire")
       ELSE LET ps == CHOOSE x \in throttlePending : TRUE
                s1 == deliverPrompts([St EXCEPT !.throttlePending = {},
                                                !.supplied = {}],
                                     ps, ~rejected)
            IN  Commit(finishAll(s1, {p \in Plays :
                                        playPc[p] \in {"throttleF", "throttleL"}}),
                       "throttleDeliver")

ConnectResolve ==
  \E a \in Plays, failed \in BOOLEAN, rejected \in BOOLEAN :
    /\ connects[a] = "pending"
    /\ ~(failed /\ rejected)
    /\ ~throttleBusy
    /\ Commit(resumeAll(connectSettled(St, a, ~failed),
                        {p \in Plays : playPc[p] = "connect" /\ playAtt[p] = a},
                        ~rejected),
              IF failed THEN "connectFail" ELSE "connectOk")

PlayersStarted ==
  \E p \in Plays, rejected \in SendRejects(session) :
    /\ playPc[p] = "players"
    /\ ~throttleBusy
    /\ Commit(playCallPrompts(St, p, "fallback", ~rejected), "playersStarted")

OnAudioChunk ==
  \E a \in Plays, d \in Durations :
    /\ connects[a] = "live"
    /\ backend[a] = "playing"
    /\ nchunks < MaxChunks
    /\ ~throttleBusy
    /\ Commit([St EXCEPT
                 !.nchunks = @ + 1,
                 !.decoding = IF playbackState \in {"paused", "stopped"} THEN @
                              ELSE Append(@, [id |-> nchunks + 1, dur |-> d,
                                              stale |-> FALSE])],
              "onAudioChunk")

DecodeDone ==
  /\ decoding # << >>
  /\ ~throttleBusy
  /\ Commit(processDecoded(
              [St EXCEPT !.decoding = Tail(@),
                         !.recLog = IF isRecording
                                    THEN Append(@, Head(decoding).id) ELSE @],
              Head(decoding)),
            "decodeDone")

DecodeFail ==
  /\ decoding # << >>
  /\ ~throttleBusy
  /\ Commit([St EXCEPT !.decoding = Tail(@)], "decodeFail")

TimerFire ==
  /\ timers # << >>
  /\ Head(timers) <= now
  /\ ~throttleBusy
  /\ Commit(setPlaybackState([St EXCEPT !.timers = Tail(@)], "playing"),
            "timer")

OnFilteredPrompt ==
  \E a \in Plays, t \in Rejected :
    /\ connects[a] = "live"
    /\ backend[a] # "closed"
    /\ ~throttleBusy
    /\ Commit([Emit(St, FilteredEvent) EXCEPT !.filteredPrompts = @ \cup {t}],
              "onFilteredPrompt")

OnError_KeepsSession ==
  \E a \in Plays :
    /\ connects[a] = "live"
    /\ backend[a] # "closed"
    /\ ~throttleBusy
    /\ Commit([setPlaybackState(Emit(St, "session error"), "stopped") EXCEPT
                 !.backend[a] = "closed"],
              "onError")

OnError ==
  \E a \in Plays :
    /\ connects[a] = "live"
    /\ backend[a] # "closed"
    /\ ~throttleBusy
    /\ Commit([stop(Emit(St, "session error")) EXCEPT !.backend[a] = "closed"],
              "onError")

\* The host's record-toggle listener: the button asks for the opposite of
\* the recording state the engine last announced.
RecordToggle ==
  /\ ~throttleBusy
  /\ IF isRecording
     THEN Commit([stopRecordingAndDownload(St) EXCEPT !.recLog = << >>],
                 "stopRecording")
     ELSE Commit([startRecording(St) EXCEPT !.recLog = << >>],
                 "startRecording")

\* A second passes.  Timers that are due, decodes and the 200 ms throttle
\* window all complete within the second they belong to.
Tick ==
  /\ now < MaxTime
  /\ ~throttleBusy
  /\ decoding = << >>
  /\ IF timers = << >> THEN TRUE ELSE Head(timers) > now
  /\ Commit([St EXCEPT !.now = @ + 1], "tick")

\* play() invocations are numbered in call order; the specifications with
\* more machinery leave the last slot unused.
LastSlotUnused == playPc'[MaxPlays] = "idle"

\* The engine with its scheduler, driven by the play/pause button, the
\* backend and the clock, with the prompts the host set at start-up.
Next ==
  \/ PlayPause /\ LastSlotUnused
  \/ ThrottleExpire
  \/ ConnectResolve
  \/ PlayersStarted
  \/ OnAudioChunk
  \/ DecodeDone
  \/ DecodeFail
  \/ TimerFire
  \/ OnError
  \/ Tick

Spec == Init /\ [][Next]_vars

\* The session connector alone: no audio arrives and no time passes, every
\* play() slot is used.
NextSession ==
  \/ PlayPause
  \/ ThrottleExpire
  \/ ConnectResolve
  \/ PlayersStarted
  \/ OnError

SpecSession == Init /\ [][NextSession]_vars

\* The engine's sessions with and without an analysis tap.
InitGraph ==
  /\ InitEngine
  /\ isRecording = FALSE
  /\ recordedBuffers = << >>
  /\ extraDestination \in BOOLEAN

SpecGraph == InitGraph /\ [][NextSession]_vars

\* The session connector with prompt updates from the host and prompt
\* rejections from the backend.
NextPrompts ==
  \/ PlayPause /\ LastSlotUnused
  \/ SetWeightedPrompts
  \/ ThrottleExpire
  \/ ConnectResolve
  \/ PlayersStarted
  \/ OnFilteredPrompt
  \/ OnError

SpecPrompts == Init /\ [][NextPrompts]_vars

\* The prompt mixer over several sessions: every play() slot is used, and
\* the host and the backend's filter act while no play() is suspended.
Settled == \A p \in Plays : playPc[p] \in {"idle", "done", "failed"}

NextMixer ==
  \/ PlayPause
  \/ SetWeightedPrompts /\ Settled
  \/ ThrottleExpire
  \/ ConnectResolve
  \/ PlayersStarted
  \/ OnFilteredPrompt /\ Settled

SpecMixer == Init /\ [][NextMixer]_vars

\* The engine with its scheduler and the recorder, over one play() call.
FirstSlotOnly == \A p \in Plays : p > 1 => playPc'[p] = "idle"

NextRecord ==
  \/ PlayPause /\ FirstSlotOnly
  \/ ThrottleExpire
  \/ ConnectResolve
  \/ PlayersStarted
  \/ OnAudioChunk
  \/ DecodeDone
  \/ DecodeFail
  \/ TimerFire
  \/ Tick
  \/ RecordToggle

SpecRecord == Init /\ [][NextRecord]_vars

\* The recorder's stop path as a function of what was captured: the
\* recording flag and the captured list are drawn from the lists below and
\* stopRecordingAndDownload() is applied to them.
MaxBufs == 3

\* Buffers whose samples are not tracked, of every shape.
PlainBuffers ==
  {[id |-> 0, numberOfChannels |-> C, sampleRate |-> R, length |-> f] :
     C \in 1..2, R \in {44100, 48000}, f \in {1, 48000}}

\* One-frame buffers with their samples, in units of 1 / SampleDen; the
\* mono ones reach beyond [-1, 1].
MonoBuffers ==
  {[id |-> 0, numberOfChannels |-> 1, sampleRate |-> 48000, length |-> 1,
    data |-> << << k >> >>] : k \in (-(SampleDen + 1))..(SampleDen + 1)}

StereoBuffers ==
  {[id |-> 0, numberOfChannels |-> 2, sampleRate |-> 48000, length |-> 1,
    data |-> << << a >>, << b >> >>] : a, b \in {-SampleDen, 0, SampleDen}}

ListsOf(S) == UNION {[1..n -> S] : n \in 0..MaxBufs}

CapturedLists ==
  ListsOf(PlainBuffers) \cup ListsOf(MonoBuffers) \cup ListsOf(StereoBuffers)

InitWav ==
  /\ InitEngine
  /\ extraDestination = TRUE
  /\ isRecording \in BOOLEAN
  /\ recordedBuffers \in CapturedLists

StopRecordingAndDownload ==
  Commit(stopRecordingAndDownload(St), "stopRecordingAndDownload")

NextWav == StopRecordingAndDownload

\* The effects panel: one pointer and the wheel on the four knobs.
\* The pointer goes down at PressYs and moves to MoveYs (100 px each way);
\* a wheel notch turns a knob by half its range.
PressYs == {100}
MoveYs == {0, 200}
WheelDeltas == {-500, 500}

PointerDown ==
  \E k \in Knobs, y \in PressYs :
    /\ \A j \in Knobs : ~knobs[j].listening
    /\ CommitFx([Fx EXCEPT !.knobs[k].dragStartPos = y,
                           !.knobs[k].dragStartValue = knobs[k].value,
                           !.knobs[k].listening = TRUE],
                "pointerDown")

PointerMove ==
  \E k \in Knobs, y \in MoveYs :
    /\ knobs[k].listening
    /\ CommitFx(knobInput(
                  [Fx EXCEPT !.knobs[k].value =
                               handlePointerMove(knobs[k].dragStartPos,
                                                 knobs[k].dragStartValue, y)],
                  k),
                "pointerMove")

PointerUp ==
  \E k \in Knobs :
    /\ knobs[k].listening
    /\ CommitFx([Fx EXCEPT !.knobs[k].listening = FALSE], "pointerUp")

Wheel ==
  \E k \in Knobs, deltaY \in WheelDeltas :
    CommitFx(knobInput(
               [Fx EXCEPT !.knobs[k].value = handleWheel(knobs[k].value, deltaY)],
               k),
             "wheel")

\* The history manager under addState, undo and redo.  Snapshots are
\* numbered in the order they are added.  Undo and redo are tried while the
\* history is short and again around the size limit, and the cursor goes at
\* most MaxBack entries back from the newest one.
MaxAdds == 103
EarlyAdds == 3
MaxBack == 2

Hist == [historyStack |-> historyStack, currentIndex |-> currentIndex]

UndoWindow == histAdds <= EarlyAdds \/ histAdds >= maxSize - 1

AddState ==
  /\ UNCHANGED presetVars
  /\ UNCHANGED debounceVars
  /\ histAdds < MaxAdds
  /\ \E h \in {addState(Hist, histAdds + 1)} :
       /\ historyStack' = h.historyStack
       /\ currentIndex' = h.currentIndex
  /\ histAdds' = histAdds + 1
  /\ histReturned' = 0
  /\ HostStep("addState")

Undo ==
  /\ UNCHANGED presetVars
  /\ UNCHANGED debounceVars
  /\ UndoWindow
  /\ ~canUndo(Hist) \/ Len(historyStack) - 1 - currentIndex < MaxBack
  /\ \E r \in {undo(Hist)} :
       /\ historyStack' = r.h.historyStack
       /\ currentIndex' = r.h.currentIndex
       /\ histReturned' = r.ret
  /\ histAdds' = histAdds
  /\ HostStep("undo")

Redo ==
  /\ UNCHANGED presetVars
  /\ UNCHANGED debounceVars
  /\ UndoWindow
  /\ \E r \in {redo(Hist)} :
       /\ historyStack' = r.h.historyStack
       /\ currentIndex' = r.h.currentIndex
       /\ histReturned' = r.ret
  /\ histAdds' = histAdds
  /\ HostStep("redo")

NextHistory ==
  \/ AddState
  \/ Undo
  \/ Redo

SpecHistory == Init /\ [][NextHistory]_vars

\* The debounced history save of the host: prompt changes, the passing of
\* time, and timeouts running (on time or late).
MaxCalls == 3
MaxClock == 1500
Elapses == {200, 500}

DebounceStep(name) ==
  HostStep(name) /\ UNCHANGED presetVars /\ UNCHANGED histReturned

\* 'prompts-changed': saveStateToHistory(prompts).
PromptsChanged ==
  /\ Len(dbCalls) < MaxCalls
  /\ \E d \in {debounce([timers |-> dbTimers, timeoutId |-> timeoutId],
                         dbClock, Len(dbCalls) + 1)} :
       /\ dbTimers' = d.timers
       /\ timeoutId' = d.timeoutId
  /\ dbCalls' = Append(dbCalls, dbClock)
  /\ UNCHANGED << dbClock, dbInvoked, historyStack, currentIndex, histAdds >>
  /\ DebounceStep("promptsChanged")

Elapse ==
  \E ms \in Elapses :
    /\ dbClock + ms <= MaxClock
    /\ dbClock' = dbClock + ms
    /\ UNCHANGED << dbTimers, timeoutId, dbCalls, dbInvoked, historyStack,
                    currentIndex, histAdds >>
    /\ DebounceStep("elapse")

\* A timeout that is due runs: func(...args), that is
\* historyManager.addState(new Map(prompts)).
TimeoutRuns ==
  \E x \in dbTimers :
    /\ x.due <= dbClock
    /\ dbTimers' = dbTimers \ {x}
    /\ dbInvoked' = Append(dbInvoked, [args |-> x.args, at |-> dbClock])
    /\ \E h \in {addState(Hist, x.args)} :
         /\ historyStack' = h.historyStack
         /\ currentIndex' = h.currentIndex
    /\ histAdds' = histAdds + 1
    /\ UNCHANGED << timeoutId, dbClock, dbCalls >>
    /\ DebounceStep("timeoutRuns")

NextDebounce ==
  \/ PromptsChanged
  \/ Elapse
  \/ TimeoutRuns

SpecDebounce == Init /\ [][NextDebounce]_vars

\* The preset manager under its four operations.
PresetNames == {NameOrder[i] : i \in DOMAIN NameOrder}
\* The prompt lists handed to savePreset(): Array.from(prompts.values()), a
\* prompt map being the sequence of its prompts.
PresetPrompts == {<< >>, PromptMap(1, 0), PromptMap(0, 1)}

PresetStep(name) ==
  HostStep(name) /\ UNCHANGED histVars /\ UNCHANGED debounceVars

SavePreset ==
  \E name \in PresetNames \cup {""}, ps \in PresetPrompts, quotaOk \in BOOLEAN :
    \E r \in {savePreset(presetStorage, name, ps, quotaOk)} :
      /\ presetStorage' = r.storage
      /\ presetResult' = [call |-> "savePreset", name |-> name,
                          prompts |-> ps, threw |-> r.threw]
      /\ presetSaved' = IF r.threw THEN presetSaved
                        ELSE (name :> ps) @@ presetSaved
      /\ PresetStep("savePreset")

DeletePreset ==
  \E name \in PresetNames, quotaOk \in BOOLEAN :
    \E r \in {deletePreset(presetStorage, name, quotaOk)} :
      /\ presetStorage' = r.storage
      /\ presetResult' = [call |-> "deletePreset", name |-> name,
                          threw |-> r.threw]
      /\ presetSaved' = IF r.threw THEN presetSaved
                        ELSE [n \in DOMAIN presetSaved \ {name} |->
                                presetSaved[n]]
      /\ PresetStep("deletePreset")

LoadPreset ==
  \E name \in PresetNames :
    /\ presetResult' = [call |-> "loadPreset", name |-> name,
                        returned |-> loadPreset(presetStorage, name)]
    /\ UNCHANGED << presetStorage, presetSaved >>
    /\ PresetStep("loadPreset")

ListPresets ==
  /\ presetResult' = [call |-> "listPresets",
                      returned |-> listPresets(presetStorage)]
  /\ UNCHANGED << presetStorage, presetSaved >>
  /\ PresetStep("listPresets")

NextPresets ==
  \/ SavePreset
  \/ DeletePreset
  \/ LoadPreset
  \/ ListPresets

SpecPresets == Init /\ [][NextPresets]_vars

NextFx ==
  \/ PointerDown
  \/ PointerMove
  \/ PointerUp
  \/ Wheel

SpecFx == Init /\ [][NextFx]_vars

SpecWav == InitWav /\ [][NextWav]_vars

\* Live mode with a backend that cooperates: the connect attempt succeeds,
\* no request is rejected, every decode succeeds, and the first chunk after
\* play() arrives while the clock can still run through its pre-roll.  The
\* host presses the button in every state but 'loading'.
BackendCooperates == emitted' = << >>

ChunkInTime == now + bufferTime <= MaxTime

NextLive ==
  \/ PlayPause /\ playbackState # "loading" /\ BackendCooperates
  \/ ConnectResolve /\ BackendCooperates
  \/ ThrottleExpire
  \/ OnAudioChunk /\ ChunkInTime
  \/ DecodeDone
  \/ TimerFire
  \/ Tick /\ (prerollAt # -1 \/ now' + bufferTime <= MaxTime)

\* The event loop runs every task that is ready, and the backend keeps
\* streaming while the session plays.
SpecLive == Init /\ [][NextLive]_vars /\ WF_vars(NextLive)

TypeOK ==
  /\ playbackState \in PlaybackStates
  /\ session \in 0..MaxPlays
  /\ sessionPromise \in 0..MaxPlays
  /\ isFallbackMode \in BOOLEAN
  /\ nextStartTime \in 0..(MaxTime + bufferTime + MaxChunks * MaxDur)
  /\ gain \in {0, 1}
  /\ prompts \in HostPrompts


\* ------------------------------------------------------------ properties

LiveStatus(a) == a # 0 /\ connects[a] = "live"

DoneStates == {"done", "failed"}

\* A step of DecodeDone: the head of the decode queue has been processed.
DecodeStep == op' = "decodeDone" /\ Len(decoding') = Len(decoding) - 1

\* C1: when stop() was called while play() awaited the connect attempt and
\* no play() followed, the settling of that attempt activates nothing: the
\* session stays unset, session.play() is not called, no fallback player
\* starts and the state stays 'stopped'.
C1_LateConnectNotActivated ==
  [][\A a \in Plays :
       (/\ connects[a] = "pending"
        /\ connects'[a] # "pending"
        /\ sessionPromise = 0
        /\ session = 0
        /\ playbackState = "stopped")
       => (/\ session' = 0
           /\ backend'[a] # "playing"
           /\ \A k \in DOMAIN fallbackPlayers' : fallbackPlayers'[k].paused
           /\ playbackState' = "stopped")]_vars

\* C2: a chunk whose decode started before a stop() and completes after it
\* is discarded: nothing is scheduled, nextStartTime is not set and no
\* pre-roll timer is armed.
C2_StaleChunkDiscarded ==
  [][(DecodeStep /\ Head(decoding).stale)
       => (/\ scheduled' = scheduled
           /\ nextStartTime' = nextStartTime
           /\ timers' = timers)]_vars

\* C3: the start times handed to the audio output never decrease and no two
\* scheduled buffers overlap.
C3_NoOverlap ==
  \A i \in 1..(Len(scheduled) - 1) :
    scheduled[i + 1].start >= scheduled[i].start + scheduled[i].dur

\* C4: a buffer that arrives while nextStartTime is set and already in the
\* past resets nextStartTime to 0, puts the state to 'loading' and is not
\* scheduled.
C4_UnderrunDropsBuffer ==
  [][(DecodeStep /\ nextStartTime # 0 /\ nextStartTime < now)
       => (/\ nextStartTime' = 0
           /\ playbackState' = "loading"
           /\ scheduled' = scheduled)]_vars

C4_Witness ==
  /\ op = "decodeDone"
  /\ nextStartTime = 0
  /\ playbackState = "loading"
  /\ Len(scheduled) = 1
  /\ now > scheduled[1].start + scheduled[1].dur

\* C5: in Live mode (Fallback mode off, no connect attempt has failed) the
\* state becomes 'playing' only through the pre-roll timer, and not before bufferTime has passed since the arrival
\* of the first buffer scheduled after the last reset of nextStartTime.
C5_PlayingOnlyAfterPreroll ==
  [][(/\ playbackState # "playing"
      /\ playbackState' = "playing"
      /\ ~isFallbackMode /\ ~isFallbackMode'
      /\ \A a \in Plays : connects'[a] # "mock")
       => (/\ op' = "timer"
           /\ prerollAt # -1
           /\ now >= prerollAt + bufferTime)]_vars

\* C6: a play() called with no active prompt emits the no-active-prompt
\* error and ends in state 'paused' or 'stopped'.
C6_PlayWithoutPromptsNeverPlays ==
  [][\A p \in Plays :
       (/\ playPc[p] \notin DoneStates
        /\ playPc'[p] \in DoneStates
        /\ playEmpty'[p]
        /\ activePromptsOf(prompts', filteredPrompts') = << >>)
       => (/\ playbackState' \in {"paused", "stopped"}
           /\ \E i \in DOMAIN emitted' : emitted'[i] = NoActivePromptError)]_vars

\* C7: the session is never both Live and Fallback: while a live session
\* handle is held, the Fallback flag is off and no fallback player plays.
C7_NeverLiveAndFallback ==
  LiveStatus(session)
    => (/\ ~isFallbackMode
        /\ \A k \in DOMAIN fallbackPlayers : fallbackPlayers[k].paused)

\* C8: a failed connect attempt is not propagated to play(): it emits the
\* fallback error event, sets Fallback mode, creates one player per asset
\* with volume 0 and resolves to a session object, which the waiting
\* play() takes as its session.
C8_ConnectFailureFallsBack ==
  [][\A a \in Plays :
       (connects[a] = "pending" /\ connects'[a] \notin {"pending", "live"})
       => (/\ connects'[a] = "mock"
           /\ \E i \in DOMAIN emitted' : emitted'[i] = FallbackError
           /\ isFallbackMode'
           /\ DOMAIN fallbackPlayers' = FALLBACK_AUDIO_MAP
           /\ \A k \in FALLBACK_AUDIO_MAP : fallbackPlayers'[k].volume = 0
           /\ \A p \in Plays :
                (playPc[p] = "connect" /\ playAtt[p] = a)
                  => (playPc'[p] = "players" /\ session' = a))]_vars

C8_Witness ==
  /\ op = "connectFail"
  /\ isFallbackMode
  /\ session # 0
  /\ connects[session] = "mock"
  /\ playPc[session] = "players"

\* C9: once in Fallback mode the engine stays in Fallback mode, and makes
\* no new connect attempt, until stop() is called.
C9_FallbackUntilStop ==
  [][(isFallbackMode /\ op' \notin {"stop", "onError"})
       => (/\ isFallbackMode'
           /\ \A a \in Plays : connects[a] = "none" => connects'[a] = "none")]_vars

\* C10: when stop() returns the state is 'stopped', the session handle and
\* the cached connect attempt are discarded, Fallback mode is off,
\* nextStartTime is 0 and the input gain ramps to 0.
C10_StopResetsEverything ==
  op \in {"stop", "onError"}
    => (/\ playbackState = "stopped"
        /\ session = 0
        /\ sessionPromise = 0
        /\ ~isFallbackMode
        /\ nextStartTime = 0
        /\ gain = 0)

C10_Witness ==
  /\ op = "stop"
  /\ scheduled # << >>
  /\ \E a \in Plays : connects[a] = "live" /\ backend[a] = "stopped"

\* C11: when stop() returns, no buffer handed to the audio output before
\* it is still due to start at a later time.
C11_StopCancelsScheduled ==
  op \in {"stop", "onError"}
    => \A i \in DOMAIN scheduled : scheduled[i].start <= now

\* C12: playPause() in state 'playing' is pause(), in 'paused' and
\* 'stopped' it is play(), and in 'loading' it is stop(): the state
\* becomes 'stopped' and the session and its connect attempt are dropped.
C12_PlayPauseDispatch ==
  [][(op' \in {"pause", "play", "stop"}) =>
       CASE playbackState = "playing" -> Commit(pause(St), "pause")
         [] playbackState = "loading" ->
              /\ Commit(stop(St), "stop")
              /\ playbackState' = "stopped"
              /\ session' = 0
              /\ sessionPromise' = 0
         [] OTHER ->
              \E p \in Plays, sendOk \in BOOLEAN :
                NextPlay(p) /\ Commit(play(St, p, sendOk), "play")]_vars

C12_Witness ==
  /\ op = "stop"
  /\ playbackState = "stopped"
  /\ sessionPromise = 0
  /\ \E a \in Plays : connects[a] = "pending"

\* C13: play() leaves the state 'loading' when it suspends on a new connect
\* attempt, and in Live mode with an active prompt, a successful connect
\* and a chunk still to arrive in time, the state eventually becomes
\* 'playing'.
C13_PlayLoadsThenPlays ==
  /\ [][(op' = "play" /\ \E a \in Plays : connects[a] = "none"
                                          /\ connects'[a] = "pending")
          => playbackState' = "loading"]_vars
  /\ (op = "play" /\ nchunks < MaxChunks /\ ChunkInTime)
       ~> (playbackState = "playing")

C13_Witness ==
  /\ op = "timer"
  /\ playbackState = "playing"
  /\ LiveStatus(session)
  /\ backend[session] = "playing"
  /\ scheduled # << >>

\* C14: in Fallback mode play() sets the state to 'playing' itself, as soon
\* as the fallback players have started and the prompt weights have been
\* applied: no pre-roll timer is armed and no chunk arrives on the way.
C14_FallbackPlaysAtOnce ==
  [][\A p \in Plays :
       (playPc[p] \in {"players", "throttleF"} /\ playPc'[p] # playPc[p])
       => (/\ playPc'[p] = "done"
           /\ playbackState' = "playing"
           /\ Len(delivered') = 1
           /\ timers' = timers
           /\ nchunks' = nchunks)]_vars

C14_Witness ==
  /\ op = "playersStarted"
  /\ playbackState = "playing"
  /\ isFallbackMode
  /\ \A k \in FALLBACK_AUDIO_MAP : ~fallbackPlayers[k].paused
  /\ fallbackPlayers["Funk"].volume = 1
  /\ timers = << >>
  /\ nchunks = 0

\* C15: when pause() returns the state is 'paused', nextStartTime is 0 and
\* the input gain ramps to 0; in Fallback mode every fallback player is
\* paused, in Live mode the backend session has been told to pause.
C15_PauseResets ==
  op = "pause"
    => (/\ playbackState = "paused"
        /\ nextStartTime = 0
        /\ gain = 0
        /\ isFallbackMode
             => \A k \in DOMAIN fallbackPlayers : fallbackPlayers[k].paused
        /\ (~isFallbackMode /\ LiveStatus(session) /\ backend[session] # "closed")
             => backend[session] = "paused")

C15_Witness ==
  /\ op = "pause"
  /\ LiveStatus(session)
  /\ backend[session] = "paused"
  /\ scheduled # << >>

\* The prompts of the map ps whose text is k, whose weight is positive and
\* whose text is not in F.
Matching(ps, F, k) ==
  {i \in DOMAIN ps : ps[i].text = k /\ ps[i].weight > 0 /\ k \notin F}

\* C16: in Fallback mode every delivery sets each fallback player's volume
\* to min(weight, 1) of the active prompt with the player's text, and to 0
\* when there is none; every volume is within [0,1].
C16_FallbackVolumes ==
  [][(delivered' # << >> /\ isFallbackMode')
       => \A k \in DOMAIN fallbackPlayers' :
            LET m == Matching(prompts', filteredPrompts', k)
                v == fallbackPlayers'[k].volume
            IN  /\ m = {} => v = 0
                /\ \A i \in m :
                     v = IF prompts'[i].weight < 1 THEN prompts'[i].weight ELSE 1
                /\ v >= 0 /\ v <= 1]_vars

C16_Witness ==
  /\ op \in {"setWeightedPrompts", "throttleDeliver"}
  /\ delivered # << >>
  /\ isFallbackMode
  /\ filteredPrompts = {"Funk"}
  /\ prompts[1].weight = MaxWeight
  /\ prompts[2].weight = 1
  /\ \A k \in FALLBACK_AUDIO_MAP : fallbackPlayers[k].volume = 0

\* C17: for prompt weights in 0..MaxWeight and any set of filtered texts,
\* activePrompts is exactly the prompts with weight > 0 whose text is not
\* filtered, each once.
C17_ActivePromptsExact ==
  LET act == activePrompts(St)
      want == {i \in DOMAIN prompts : /\ prompts[i].weight > 0
                                      /\ prompts[i].text \notin filteredPrompts}
  IN  (\A i \in DOMAIN prompts : prompts[i].weight \in 0..MaxWeight)
        => (/\ {act[i] : i \in DOMAIN act} = {prompts[i] : i \in want}
            /\ Len(act) = Cardinality(want))

C17_Witness ==
  /\ filteredPrompts = {"Funk"}
  /\ prompts = PromptMap(MaxWeight, 1)
  /\ sent = << [weightedPrompts |-> << [text |-> "Jazz", weight |-> 1] >>,
               ok |-> TRUE] >>

Emitted(e) == \E i \in DOMAIN emitted' : emitted'[i] = e

\* A play() that had started the fallback players resumes in this step
\* (and sets 'playing' after its own prompt delivery).
FallbackPlayResumes == \E p \in Plays : playPc[p] = "players" /\ playPc'[p] # "players"

\* C18: no request with an empty prompt list is sent to a backend session:
\* a delivery outside Fallback mode that finds no active prompt emits the
\* no-active-prompt error and sends nothing, and the state it leaves is
\* 'paused'.
C18_NoEmptyRequest ==
  [][/\ \A i \in DOMAIN sent' : sent'[i].weightedPrompts # << >>
     /\ (/\ delivered' # << >>
         /\ ~isFallbackMode'
         /\ activePromptsOf(prompts', filteredPrompts') = << >>)
        => (/\ Emitted(NoActivePromptError)
            /\ sent' = << >>
            /\ ~FallbackPlayResumes => playbackState' = "paused")]_vars

C18_Witness ==
  /\ op = "setWeightedPrompts"
  /\ delivered # << >>
  /\ LiveStatus(session)
  /\ activePrompts(St) = << >>
  /\ playbackState = "paused"
  /\ backend[session] = "paused"

\* C19: a prompt update the backend rejects does not fail its caller: the
\* error event with the message is emitted, the state it leaves is
\* 'paused', and a play() that awaited the update runs on (in the Live
\* branch to session.play()).
C19_RejectedUpdatePauses ==
  [][(\E i \in DOMAIN sent' : ~sent'[i].ok)
       => (/\ Emitted(SendError)
           /\ ~FallbackPlayResumes => playbackState' = "paused"
           /\ \A p \in Plays :
                playPc'[p] # playPc[p] => playPc'[p] \in {"done", "throttleL"}
           /\ \A p \in Plays :
                (playPc[p] \in {"idle", "connect"} /\ playPc'[p] = "done")
                  => backend'[session'] = "playing")]_vars

C19_Witness ==
  /\ op = "connectOk"
  /\ sent # << >>
  /\ ~sent[1].ok
  /\ playbackState = "paused"
  /\ LiveStatus(session)
  /\ backend[session] = "playing"

C21_DecodeFailureSurfaced ==
  [][op' = "decodeFail"
     => (/\ emitted' # << >>
         /\ scheduled' = scheduled
         /\ recordedBuffers' = recordedBuffers
         /\ playbackState' = playbackState
         /\ nextStartTime' = nextStartTime)]_vars

\* C22: recording is never active while the engine is in Fallback mode.
C22_NoRecordingInFallback == isRecording => ~isFallbackMode

\* C23: startRecording() activates recording only when the engine is not in
\* Fallback mode and the state is 'playing' or 'loading'; otherwise it emits
\* an error, no recording-state-changed event, and leaves the recording flag
\* and the recorded buffers as they were.
C23_StartRecordingGuard ==
  [][op' = "startRecording"
     => IF ~isFallbackMode /\ playbackState \in {"playing", "loading"}
        THEN /\ isRecording' /\ recordedBuffers' = << >>
             /\ emitted' = << RecordingOn >>
        ELSE /\ emitted' \in {<< FallbackRecordingError >>,
                              << NotPlayingError >>}
             /\ isRecording' = isRecording
             /\ recordedBuffers' = recordedBuffers]_vars

\* A refused start in Fallback mode while the state is 'playing'.
C23_Witness ==
  /\ op = "startRecording"
  /\ isFallbackMode
  /\ playbackState = "playing"
  /\ ~isRecording
  /\ emitted = << FallbackRecordingError >>

RecordedIds(bufs) == [i \in DOMAIN bufs |-> bufs[i].id]

\* C24: while recording is active the recorded buffers are, in order, the
\* buffers decoded since startRecording(), a buffer dropped by the scheduler
\* for underrun included; a chunk arriving in 'paused' or 'stopped' is not
\* decoded and not recorded.
C24_RecordsEveryDecodedBuffer ==
  [][/\ isRecording' => RecordedIds(recordedBuffers') = recLog'
     /\ (op' = "onAudioChunk" /\ playbackState \in {"paused", "stopped"})
        => (recordedBuffers' = recordedBuffers /\ decoding' = decoding)]_vars

\* The second recorded buffer arrived too late and was dropped.
C24_Witness ==
  /\ op = "decodeDone"
  /\ isRecording
  /\ Len(recordedBuffers) = 2
  /\ Len(scheduled) = 1
  /\ nextStartTime = 0

\* C25: stopRecordingAndDownload() while recording with nothing captured
\* emits an error and no file; whatever the outcome (nothing captured,
\* encoding failed, file produced) it leaves the flag false and the list
\* empty and has emitted recording-state-changed(false); while not recording
\* it changes nothing and emits nothing.
C25_StopRecordingOutcomes ==
  [][op' = "stopRecordingAndDownload"
     => IF ~isRecording
        THEN /\ emitted' = << >>
             /\ downloaded' = << >>
             /\ UNCHANGED << isRecording, recordedBuffers, playbackState,
                             session, sessionPromise, isFallbackMode,
                             nextStartTime, scheduled, timers, gain >>
        ELSE /\ ~isRecording'
             /\ recordedBuffers' = << >>
             /\ emitted' # << >>
             /\ emitted'[1] = RecordingOff
             /\ Len(downloaded') <= 1
             /\ (downloaded' = << >>) <=> (Len(emitted') = 2)
             /\ recordedBuffers = << >>
                => (/\ emitted' = << RecordingOff, NothingRecordedError >>
                    /\ downloaded' = << >>)]_vars

\* A stop with nothing captured.
C25_Witness ==
  /\ op = "stopRecordingAndDownload"
  /\ emitted = << RecordingOff, NothingRecordedError >>
  /\ downloaded = << >>
  /\ ~isRecording
  /\ recordedBuffers = << >>

Mismatched(bufs) ==
  \E i, j \in DOMAIN bufs :
    \/ bufs[i].numberOfChannels # bufs[j].numberOfChannels
    \/ bufs[i].sampleRate # bufs[j].sampleRate

RECURSIVE SumFrames(_)
SumFrames(bufs) ==
  IF bufs = << >> THEN 0 ELSE bufs[1].length + SumFrames(Tail(bufs))

\* C27: for captured buffers with C channels, sample rate R and frame counts
\* f_i the file is 44 + D bytes long with D = (sum of f_i) * C * 2, and its
\* header holds RIFF size 36 + D, format tag 1, C channels, rate R, byte
\* rate R * C * 2, block align C * 2, 16 bits per sample and data size D;
\* three one-second 48 kHz stereo buffers give D = 576000.
C27_WavHeader ==
  [][(/\ op' = "stopRecordingAndDownload"
      /\ isRecording
      /\ recordedBuffers # << >>
      /\ ~Mismatched(recordedBuffers))
     => LET C == recordedBuffers[1].numberOfChannels
            R == recordedBuffers[1].sampleRate
            D == SumFrames(recordedBuffers) * C * 2
            w == downloaded'[1]
        IN  /\ Len(downloaded') = 1
            /\ w.byteLength = 44 + D
            /\ w.riff = "RIFF" /\ w.wave = "WAVE"
            /\ w.fmt = "fmt " /\ w.data = "data"
            /\ w.riffSize = 36 + D
            /\ w.fmtSize = 16
            /\ w.format = 1
            /\ w.numChannels = C
            /\ w.sampleRate = R
            /\ w.byteRate = R * C * 2
            /\ w.blockAlign = C * 2
            /\ w.bitsPerSample = 16
            /\ w.dataSize = D
            /\ (C = 2 /\ R = 48000 /\ Len(recordedBuffers) = 3
                /\ \A i \in 1..3 : recordedBuffers[i].length = 48000)
               => w.dataSize = 576000]_vars

\* The file of three one-second 48 kHz stereo buffers.
C27_Witness ==
  /\ op = "stopRecordingAndDownload"
  /\ Len(downloaded) = 1
  /\ downloaded[1].numChannels = 2
  /\ downloaded[1].sampleRate = 48000
  /\ downloaded[1].dataSize = 576000
  /\ downloaded[1].byteLength = 576044

\* C28: every sample written to the data chunk is the input clamped to
\* [-1, 1] and scaled to the signed 16-bit range: it lies in
\* [-32768, 32767], does not decrease when the input grows, is -32768 for
\* inputs of -1 and below, 0 for 0 and 32767 for inputs of 1 and above; the
\* samples are written frame by frame, the channels of a frame in order.
C28_SampleEncoding ==
  [][(/\ op' = "stopRecordingAndDownload"
      /\ isRecording
      /\ recordedBuffers # << >>
      /\ ~Mismatched(recordedBuffers)
      /\ \A f \in DOMAIN recordedBuffers : Tracked(recordedBuffers[f]))
     => LET C == recordedBuffers[1].numberOfChannels
            F == Len(recordedBuffers)
            In(f, c) == recordedBuffers[f].data[c][1]
            Out(f, c) == downloaded'[1].samples[(f - 1) * C + c]
        IN  /\ Len(downloaded') = 1
            /\ Len(downloaded'[1].samples) = F * C
            /\ \A f \in 1..F, c \in 1..C :
                 /\ Out(f, c) \in (-32768)..32767
                 /\ In(f, c) <= -SampleDen => Out(f, c) = -32768
                 /\ In(f, c) = 0 => Out(f, c) = 0
                 /\ In(f, c) >= SampleDen => Out(f, c) = 32767
                 /\ \A g \in 1..F, d \in 1..C :
                      In(f, c) <= In(g, d) => Out(f, c) <= Out(g, d)]_vars

\* Two stereo frames (-1, 0) and (1, -1), interleaved.
C28_Witness ==
  /\ op = "stopRecordingAndDownload"
  /\ Len(downloaded) = 1
  /\ downloaded[1].numChannels = 2
  /\ downloaded[1].samples = << -32768, 0, 32767, -32768 >>

\* ------------------------------------------------------------- effects

\* C29: in every state, from construction onwards, the delay feedback gain
\* target is 0.7 times the delay wet gain target.
C29_FeedbackFollowsWet == delayFeedback * 10 = delayWetGain * 7

\* C30: whatever pointer drags and wheel turns the knobs receive, the three
\* wet gains and the master volume stay within [0, 1]; at construction the
\* wet gains are 0 and the dry and master gains are 1.
C30_GainsWithinUnitRange ==
  /\ distortionWetGain \in 0..One
  /\ delayWetGain \in 0..One
  /\ reverbWetGain \in 0..One
  /\ masterVolumeNode \in 0..One
  /\ op = "init" => (/\ distortionWetGain = 0
                     /\ delayWetGain = 0
                     /\ reverbWetGain = 0
                     /\ dryGain = One
                     /\ masterVolumeNode = One)

\* A drag of the delay knob that started at 1 and moved 100 px: the value
\* 1 + 0.5 is held at 1, or 1 - 0.5 followed by a move back; the volume
\* knob was wheeled down to 0 and the distortion knob up to 0.5.
C30_Witness ==
  /\ op = "pointerMove"
  /\ knobs["delay"].listening
  /\ knobs["delay"].dragStartValue = One
  /\ knobs["delay"].dragStartPos = 100
  /\ delayWetGain = One
  /\ masterVolumeNode = 0
  /\ distortionWetGain = One \div 2

\* ------------------------------------------- graph, scheduler and session

\* The fixed topology of the effects graph.
EffectsTopology ==
  LET branches == {"dryGain", "distortionNode", "delayWetGain", "reverbNode"}
  IN  {<< "outputNode", b >> : b \in branches}
      \cup {<< "distortionNode", "distortionWetGain" >>,
            << "delayWetGain", "delayNode" >>,
            << "reverbNode", "reverbWetGain" >>}
      \cup {<< w, "finalOutput" >> :
              w \in {"dryGain", "distortionWetGain", "delayNode",
                     "reverbWetGain"}}
      \cup {<< "delayNode", "delayFeedback" >>,
            << "delayFeedback", "delayNode" >>,
            << "finalOutput", "masterVolumeNode" >>,
            << "masterVolumeNode", "destination" >>}
      \cup (IF extraDestination
            THEN {<< "masterVolumeNode", "extraDestination" >>} ELSE {})

\* C31: after any number of play() calls the connections between the nodes
\* are exactly the fixed topology: input to the dry, distortion, delay and
\* reverb branches, each branch into the final bus, the delay feedback loop,
\* the final bus to the master volume, the master volume to the output and
\* to the analysis tap when there is one.
C31_GraphIsFixedTopology ==
  (\E p \in Plays : playPc[p] # "idle") => connections = EffectsTopology

\* A second play() call, which tore the graph down and rebuilt it, on an
\* engine without an analysis tap.
C31_Witness ==
  /\ op = "play"
  /\ \A p \in 1..2 : playPc[p] # "idle"
  /\ ~extraDestination
  /\ Cardinality(connections) = 15

\* C32: a buffer decoded while nextStartTime is 0 is itself scheduled at
\* now + bufferTime and nextStartTime becomes now + bufferTime + its
\* duration; a later buffer that is not late starts exactly at nextStartTime
\* and advances it by its own duration, so consecutive buffers abut.
C32_PrerollThenAbutting ==
  [][DecodeStep
     => LET c == Head(decoding)
        IN  /\ nextStartTime = 0
               => (/\ scheduled' = Append(scheduled,
                                          [start |-> now + bufferTime,
                                           dur |-> c.dur])
                   /\ nextStartTime' = now + bufferTime + c.dur)
            /\ (nextStartTime # 0 /\ nextStartTime >= now)
               => (/\ scheduled' = Append(scheduled,
                                          [start |-> nextStartTime,
                                           dur |-> c.dur])
                   /\ nextStartTime' = nextStartTime + c.dur)]_vars

\* Two buffers of one pre-roll, the second starting where the first ends.
C32_Witness ==
  /\ op = "decodeDone"
  /\ Len(scheduled) = 2
  /\ scheduled[1].start = bufferTime
  /\ scheduled[2].start = scheduled[1].start + scheduled[1].dur
  /\ nextStartTime = scheduled[2].start + scheduled[2].dur

\* C33: in 'paused' or 'stopped' no pre-roll timer firing, chunk arrival or
\* decode completion changes the playback state.
C33_PausedStaysPaused ==
  [][(/\ playbackState \in {"paused", "stopped"}
      /\ op' \in {"timer", "onAudioChunk", "decodeDone", "decodeFail"})
     => playbackState' = playbackState]_vars

\* A play() call runs to completion in this step, with no stop() since it
\* was called: the connect attempt it awaited is still the cached one.
PlayCompletes(p) ==
  /\ playPc[p] \notin DoneStates
  /\ playPc'[p] = "done"
  /\ sessionPromise = playAtt'[p]

\* C34: whenever play() has run to completion and left the engine in
\* 'loading' or 'playing', the engine input gain has been ramped to 1, in
\* Live mode and in Fallback mode alike.
C34_PlayRaisesGain ==
  [][\A p \in Plays :
       (PlayCompletes(p) /\ playbackState' \in {"loading", "playing"})
       => gain' = 1]_vars

\* C35: when the backend session reports an error the engine emits an error
\* event with the message and stops: the state is 'stopped' and the session
\* and the cached connect attempt are discarded; a later play() starts a
\* fresh connect attempt.
C35_SessionErrorStops ==
  [][/\ op' = "onError"
        => (/\ emitted' = << "session error" >>
            /\ playbackState' = "stopped"
            /\ session' = 0
            /\ sessionPromise' = 0)
     /\ (op' = "play" /\ sessionPromise = 0)
        => (/\ sessionPromise' # 0
            /\ connects[sessionPromise'] = "none"
            /\ connects'[sessionPromise'] = "pending")]_vars

\* A play() after a session error, waiting for a new connect attempt.
C35_Witness ==
  /\ op = "play"
  /\ playbackState = "loading"
  /\ sessionPromise # 0
  /\ connects[sessionPromise] = "pending"
  /\ \E a \in Plays : a # sessionPromise /\ backend[a] = "closed"

\* -------------------------------------------------------------- history

HistAfter == [historyStack |-> historyStack', currentIndex |-> currentIndex']

\* C36: once a state has been added the cursor is a valid index and the
\* stack holds at most 100 states; adding a 101st state drops the oldest
\* one and leaves the cursor on the newest.
C36_HistoryBounded ==
  [][/\ histAdds' >= 1
        => (/\ 0 <= currentIndex'
            /\ currentIndex' <= Len(historyStack') - 1
            /\ Len(historyStack') <= 100)
     /\ (/\ op' = "addState"
         /\ Len(historyStack) = 100
         /\ currentIndex = 99)
        => (/\ historyStack' = Append(Tail(historyStack), histAdds')
            /\ currentIndex' = 99)]_vars

\* The 101st state has been added to a full stack.
C36_Witness ==
  /\ op = "addState"
  /\ histAdds = 101
  /\ Len(historyStack) = 100
  /\ historyStack[1] = 2
  /\ historyStack[100] = 101
  /\ currentIndex = 99

\* C37: addState() after one or more undo() calls discards the redo
\* history: right afterwards canRedo() is false, redo() returns null and
\* undo() returns the state that was current before the addState().
C37_AddStateDropsRedo ==
  [][(op' = "addState" /\ canRedo(Hist))
     => (/\ ~canRedo(HistAfter)
         /\ redo(HistAfter).ret = 0
         /\ redo(HistAfter).h = HistAfter
         /\ undo(HistAfter).ret = historyStack[currentIndex + 1])]_vars

\* A state added after two undos: states 2 and 3 are gone.
C37_Witness ==
  /\ op = "addState"
  /\ historyStack = << 1, 4 >>
  /\ currentIndex = 1

\* C38: when canUndo() holds, undo() followed by redo() returns the state
\* that was current before and restores the cursor; undo() at the first
\* entry and redo() at the last entry return null and change nothing.
C38_UndoRedoInverse ==
  [][/\ (op' = "undo" /\ canUndo(Hist))
        => (/\ redo(HistAfter).h = Hist
            /\ redo(HistAfter).ret = historyStack[currentIndex + 1]
            /\ histReturned' = historyStack[currentIndex])
     /\ (op' = "undo" /\ ~canUndo(Hist))
        => (histReturned' = 0 /\ HistAfter = Hist)
     /\ (op' = "redo" /\ ~canRedo(Hist))
        => (histReturned' = 0 /\ HistAfter = Hist)
     /\ (op' = "redo" /\ canRedo(Hist))
        => (/\ histReturned' = historyStack[currentIndex + 2]
            /\ currentIndex' = currentIndex + 1
            /\ historyStack' = historyStack)]_vars

\* A redo that brought the cursor back to the newest of three states.
C38_Witness ==
  /\ op = "redo"
  /\ historyStack = << 1, 2, 3 >>
  /\ currentIndex = 2
  /\ histReturned = 3

\* C39: PresetManager operations are consistent over any sequence of calls.
\* loadPreset(name) returns the prompt list last saved under the name, and
\* null for a name that is not saved; right after a successful savePreset
\* it returns the list just saved; listPresets() returns, strictly ascending
\* (sorted and without duplicates), exactly the names saved and not deleted;
\* savePreset with an empty name and deletePreset of an unknown name throw
\* and leave the stored presets unchanged.
C39_PresetsConsistent ==
  [][LET r == presetResult'
     IN  /\ r.call = "savePreset" =>
              /\ r.name = "" => r.threw /\ presetStorage' = presetStorage
              /\ ~r.threw =>
                   loadPreset(presetStorage', r.name) =
                     [found |-> TRUE, value |-> r.prompts]
         /\ r.call = "deletePreset" =>
              (r.name \notin DOMAIN presetSaved =>
                 r.threw /\ presetStorage' = presetStorage)
         /\ r.call = "loadPreset" =>
              r.returned = IF r.name \in DOMAIN presetSaved
                           THEN [found |-> TRUE, value |-> presetSaved[r.name]]
                           ELSE [found |-> FALSE]
         /\ r.call = "listPresets" =>
              /\ {r.returned[i] : i \in DOMAIN r.returned} = DOMAIN presetSaved
              /\ \A i, j \in DOMAIN r.returned :
                   i < j => Rank(r.returned[i]) < Rank(r.returned[j])]_vars

\* Presets saved out of order, one of them saved twice, are listed sorted.
C39_Witness ==
  /\ presetResult.call = "listPresets"
  /\ presetResult.returned = << "Ambient", "Chill" >>
  /\ MapKeys(presetStorage.entries) = << "Chill", "Ambient" >>
  /\ presetSaved["Chill"] = PromptMap(0, 1)

\* The invocations of func for call c of the debounced function.
InvokedFor(c) == {k \in DOMAIN dbInvoked : dbInvoked[k].args = c}

\* Call c is the last of its burst: no call follows it, or the next call
\* comes delay or more after it.
EndsBurst(c) ==
  c = Len(dbCalls) \/ dbCalls[c + 1] - dbCalls[c] >= delay

\* What every invocation of func satisfies: it is for the last call of a
\* burst, it comes no earlier than delay after that call and before any
\* later call, and it is the only one for that call; the snapshots of the
\* history are those of the invocations.
InvocationsSound ==
  /\ \A k \in DOMAIN dbInvoked :
       LET c == dbInvoked[k].args
       IN  /\ c \in DOMAIN dbCalls
           /\ EndsBurst(c)
           /\ dbInvoked[k].at >= dbCalls[c] + delay
           /\ c < Len(dbCalls) => dbInvoked[k].at <= dbCalls[c + 1]
           /\ InvokedFor(c) = {k}
  /\ historyStack = [k \in DOMAIN dbInvoked |-> dbInvoked[k].args]

\* C40 as stated: func is invoked exactly once for every burst, so a burst
\* that a later call has closed has had its invocation.
C40_OncePerBurst ==
  /\ InvocationsSound
  /\ \A c \in DOMAIN dbCalls :
       (c < Len(dbCalls) /\ EndsBurst(c)) => InvokedFor(c) # {}

\* C40, amended: func is invoked at most once per burst, with the arguments
\* of the burst's last call, no earlier than delay after it and never for a
\* superseded call, and the history holds exactly these snapshots; the last
\* call made is either invoked or still has its timeout pending, so a burst
\* gets its invocation unless a later call arrives before its timeout has
\* run.
C40_DebounceLastCallOnly ==
  /\ InvocationsSound
  /\ Cardinality(dbTimers) <= 1
  /\ (dbCalls # << >> /\ InvokedFor(Len(dbCalls)) = {}) =>
       \E x \in dbTimers : x.args = Len(dbCalls) /\ x.id = timeoutId

\* A burst of two calls, then a single call: two snapshots, none for the
\* superseded first call.
C40_Witness ==
  /\ Len(dbCalls) = 3
  /\ dbCalls[2] - dbCalls[1] < delay
  /\ dbCalls[3] - dbCalls[2] >= delay
  /\ historyStack = << 2, 3 >>

====
